---- MODULE Spec2Model ----
(***************************************************************************)
(* Model of the weather dashboard in src/main.py: one run of main(), from  *)
(* reading config.json through the two forecast requests of                *)
(* load_weather_data to the rendering of the three sections.               *)
(*                                                                         *)
(* Python values are modelled as follows.  A dict / JSON object is a       *)
(* record, and a missing key is a field that is not in its DOMAIN.  A list *)
(* and a DataFrame are sequences of rows (an empty DataFrame is <<>>).     *)
(* Strings that the code formats (icon paths) are sequences of one-letter  *)
(* strings, so that prepending a prefix is a concatenation; other strings  *)
(* are atoms.  None is the record None, or NoneStr where the slot holds    *)
(* strings.                                                                *)
(***************************************************************************)
EXTENDS Integers, Sequences, FiniteSets, TLC

VARIABLES
    pc,              \* position of the run inside main / load_weather_data
    config,          \* the file config.json as found on disk
    api_key,         \* main: api_key
    city,            \* main: city
    show_48hr,       \* main: show_48hr
    show_10day,      \* main: show_10day
    requests,        \* the HTTP GETs issued so far, in order
    response_48hr,   \* load_weather_data: response_48hr
    data_48hr,       \* load_weather_data: data_48hr
    l_current,       \* load_weather_data: current_data (local)
    l_48hr,          \* load_weather_data: forecast_48hr (local)
    response_10day,  \* load_weather_data: response_10day
    data_10day,      \* load_weather_data: data_10day
    l_10day,         \* load_weather_data: forecast_10day (local)
    current_data,    \* main: current_data
    forecast_48hr,   \* main: forecast_48hr
    forecast_10day,  \* main: forecast_10day
    errors,          \* the st.error messages shown so far
    rendered,        \* the sections written to the page so far
    gauge_value,     \* value of the temperature gauge
    pie_values,      \* values of the humidity pie chart
    line_values,     \* y values of the feels-like line chart
    html_48hr,       \* rows of the 48-hour table as displayed
    html_10day       \* rows of the 10-day table as displayed

vars == <<pc, config, api_key, city, show_48hr, show_10day, requests,
          response_48hr, data_48hr, l_current, l_48hr, response_10day,
          data_10day, l_10day, current_data, forecast_48hr, forecast_10day,
          errors, rendered, gauge_value, pie_values, line_values,
          html_48hr, html_10day>>

-----------------------------------------------------------------------------
(* Bounds *)

\* longest "forecastday" array the API is taken to return, the 10-entry
\* payload TenDayBody apart
MaxDays == 2

-----------------------------------------------------------------------------
(* Python's None *)

None == [none |-> TRUE]
NoneStr == "<None>"

-----------------------------------------------------------------------------
(* Icon paths, as sequences of letters *)

CdnExampleIcon ==
    <<"/", "/", "c", "d", "n", ".", "e", "x", "a", "m", "p", "l", "e",
      "/", "i", "c", "o", "n", ".", "p", "n", "g">>
SunnyIcon == <<"/", "/", "w", "/", "1", "1", "3">>
SchemedIcon == <<"h", "t", "t", "p", ":", "/", "/", "w", "/", "9">>

HttpPrefix == <<"h", "t", "t", "p", ":">>

\* a variant that leaves a path alone when it already starts with http:
IconUrlUnlessSchemed(icon) ==
    IF Len(icon) >= 5 /\ SubSeq(icon, 1, 5) = HttpPrefix THEN icon ELSE HttpPrefix \o icon

\* f"http:{icon}"
IconUrl(icon) == HttpPrefix \o icon

\* f'<img src="{x}" width="32">'
ImgTag(x) == <<"<img src=\"">> \o x \o <<"\" width=\"32\">">>

-----------------------------------------------------------------------------
(* What the weather API may answer *)

Cond(text, icon) == [text |-> text, icon |-> icon]

HourA == [time |-> "2024-05-02 00:00", temp_c |-> 11, feelslike_c |-> 9,
          humidity |-> 80, condition |-> Cond("Clear", SunnyIcon),
          wind_kph |-> 7]
HourB == [time |-> "2024-05-01 23:00", temp_c |-> 14, feelslike_c |-> 13,
          humidity |-> 62, condition |-> Cond("Mist", CdnExampleIcon),
          wind_kph |-> 12]
HourC == [time |-> "2024-05-01 22:00", temp_c |-> -2, feelslike_c |-> -6,
          humidity |-> 95, condition |-> Cond("Snow", SchemedIcon),
          wind_kph |-> 30]
\* an hour whose condition has no "icon"
HourNoIcon == [time |-> "2024-05-03 00:00", temp_c |-> 5, feelslike_c |-> 4,
               humidity |-> 50, condition |-> [text |-> "Fog"],
               wind_kph |-> 3]

DayA == [date |-> "2024-05-02",
         astro |-> [sunrise |-> "05:31 AM", sunset |-> "08:24 PM"],
         day |-> [avgtemp_c |-> 12, maxwind_kph |-> 15,
                  condition |-> Cond("Sunny", SunnyIcon)],
         hour |-> <<HourA, HourB>>]
DayB == [date |-> "2024-05-01",
         astro |-> [sunrise |-> "05:33 AM", sunset |-> "08:22 PM"],
         day |-> [avgtemp_c |-> -1, maxwind_kph |-> 40,
                  condition |-> Cond("Blizzard", CdnExampleIcon)],
         hour |-> <<HourC>>]
\* a day without "astro"
DayNoAstro == [date |-> "2024-05-03",
               day |-> [avgtemp_c |-> 9, maxwind_kph |-> 22,
                        condition |-> Cond("Rain", SchemedIcon)],
               hour |-> <<HourB>>]
\* a day one of whose hours lacks a field
DayBadHour == [date |-> "2024-05-04",
               astro |-> [sunrise |-> "05:29 AM", sunset |-> "08:27 PM"],
               day |-> [avgtemp_c |-> 7, maxwind_kph |-> 9,
                        condition |-> Cond("Fog", SunnyIcon)],
               hour |-> <<HourA, HourNoIcon>>]

DayPool == {DayA, DayB, DayNoAstro, DayBadHour}

CurrentA == [temp_c |-> 13, feelslike_c |-> 11, humidity |-> 45,
             condition |-> Cond("Partly cloudy", CdnExampleIcon),
             wind_kph |-> 19]
CurrentB == [temp_c |-> -4, feelslike_c |-> -9, humidity |-> 100,
             condition |-> Cond("Snow", SunnyIcon), wind_kph |-> 0]
\* a reading outside the percentage range
CurrentC == [temp_c |-> 31, feelslike_c |-> 35, humidity |-> 120,
             condition |-> Cond("Hot", SchemedIcon), wind_kph |-> 4]
\* a "current" object without "condition"
CurrentNoCond == [temp_c |-> 13, feelslike_c |-> 11, humidity |-> 0,
                  wind_kph |-> 19]

CurrentPool == {CurrentA, CurrentB, CurrentC, CurrentNoCond}

SeqsUpTo(S, n) == UNION {[1..k -> S] : k \in 0..n}

\* the API's answer to a bad key or an unknown city
ErrorBody == [error |-> [code |-> 1006, message |-> "No matching location found."]]

ForecastBody(cur, days) == [current |-> cur, forecast |-> [forecastday |-> days]]

Bodies ==
    {ErrorBody}
    \cup {[current |-> cur] : cur \in {CurrentA}}
    \cup {ForecastBody(cur, days) : cur \in CurrentPool, days \in SeqsUpTo(DayPool, MaxDays)}

\* a 10-day answer: ten days with distinct dates
TenDayBody ==
    ForecastBody(CurrentA,
        [i \in 1..10 |->
            [date |-> ToString(i),
             astro |-> [sunrise |-> "05:30 AM", sunset |-> "08:25 PM"],
             day |-> [avgtemp_c |-> 10 + i, maxwind_kph |-> 2 * i,
                      condition |-> Cond("Sunny", SunnyIcon)],
             hour |-> <<>>]])

\* outcome of requests.get: it raises, or it returns a response whose body
\* is not JSON, or one whose body is a JSON object
Raised == [kind |-> "raise"]
TextResponse == [kind |-> "text"]
JsonResponse(body) == [kind |-> "json", body |-> body]

Responses48 == {Raised, TextResponse} \cup {JsonResponse(b) : b \in Bodies}

\* the answers to the 10-day request vary in their days only, but for one
\* whose "current" object is incomplete
Bodies10 ==
    {ErrorBody, TenDayBody, ForecastBody(CurrentNoCond, <<DayA>>)}
    \cup {ForecastBody(CurrentA, days) : days \in SeqsUpTo(DayPool, MaxDays)}

Responses10 == {Raised, TextResponse} \cup {JsonResponse(b) : b \in Bodies10}

Cities == {"London", "Paris"}

ConfigFiles ==
    { [kind |-> "absent"],
      [kind |-> "text"],
      [kind |-> "json", body |-> [api_key |-> "k3y"]],
      [kind |-> "json", body |-> [api_key |-> ""]],
      [kind |-> "json", body |-> [apikey |-> "k3y"]] }

-----------------------------------------------------------------------------
(* load_api_key *)

\* True when open("config.json") finds the file
ConfigFound(f) == f.kind # "absent"

\* True when json.load(f) and config["api_key"] both succeed
ConfigReadable(f) == f.kind = "json" /\ "api_key" \in DOMAIN f.body

\* load_api_key raises: the file is there, and json.load or the lookup fails
\* with an exception other than FileNotFoundError
LoadRaises(f) == ConfigFound(f) /\ ~ConfigReadable(f)

ConfigMissingMsg == "API key configuration file not found."

\* what load_api_key reports with st.error
LoadReports(f) == IF ConfigFound(f) THEN <<>> ELSE <<ConfigMissingMsg>>

\* what load_api_key returns
LoadResult(f) == IF ConfigFound(f) THEN f.body.api_key ELSE NoneStr

\* a variant that tests for the empty string only
KeyMissingEmptyOnly(k) == k = ""

\* if not api_key
KeyMissing(k) == k = NoneStr \/ k = ""

-----------------------------------------------------------------------------
(* load_weather_data: reshaping *)

HasFields(obj, names) == names \subseteq DOMAIN obj

\* a variant in which both URLs ask for two days
RequestDays2(days, q, key) == [days |-> 2, q |-> q, key |-> key]

\* the request built from the f-string URL
Request(days, q, key) == [days |-> days, q |-> q, key |-> key]
Days48 == 2
Days10 == 10

\* the lookups of the current_data literal all succeed
CurrentOK(d) ==
    /\ HasFields(d, {"current"})
    /\ HasFields(d.current, {"temp_c", "feelslike_c", "humidity", "condition", "wind_kph"})
    /\ HasFields(d.current.condition, {"text", "icon"})
    /\ HasFields(d, {"forecast"})
    /\ HasFields(d.forecast, {"forecastday"})
    /\ Len(d.forecast.forecastday) >= 1
    /\ HasFields(d.forecast.forecastday[1], {"astro"})
    /\ HasFields(d.forecast.forecastday[1].astro, {"sunrise", "sunset"})

\* a variant that reads the temperature from feelslike_c
CurrentDataSwapped(d) ==
    [temperature |-> d.current.feelslike_c,
     feels_like  |-> d.current.feelslike_c,
     humidity    |-> d.current.humidity,
     condition   |-> d.current.condition.text,
     wind_speed  |-> d.current.wind_kph,
     icon        |-> IconUrl(d.current.condition.icon),
     sunrise     |-> d.forecast.forecastday[1].astro.sunrise,
     sunset      |-> d.forecast.forecastday[1].astro.sunset]

CurrentData(d) ==
    [temperature |-> d.current.temp_c,
     feels_like  |-> d.current.feelslike_c,
     humidity    |-> d.current.humidity,
     condition   |-> d.current.condition.text,
     wind_speed  |-> d.current.wind_kph,
     icon        |-> IconUrl(d.current.condition.icon),
     sunrise     |-> d.forecast.forecastday[1].astro.sunrise,
     sunset      |-> d.forecast.forecastday[1].astro.sunset]

HourOK(hour) ==
    /\ HasFields(hour, {"time", "temp_c", "feelslike_c", "humidity", "condition", "wind_kph"})
    /\ HasFields(hour.condition, {"text", "icon"})

HourRow(hour) ==
    [time        |-> hour.time,
     temperature |-> hour.temp_c,
     feels_like  |-> hour.feelslike_c,
     humidity    |-> hour.humidity,
     condition   |-> hour.condition.text,
     wind_speed  |-> hour.wind_kph,
     icon        |-> IconUrl(hour.condition.icon)]

\* the lookups of the hourly comprehension all succeed
HourlyOK(d) ==
    /\ HasFields(d, {"forecast"})
    /\ HasFields(d.forecast, {"forecastday"})
    /\ \A i \in 1..Len(d.forecast.forecastday) :
          /\ HasFields(d.forecast.forecastday[i], {"hour"})
          /\ \A j \in 1..Len(d.forecast.forecastday[i].hour) :
                HourOK(d.forecast.forecastday[i].hour[j])

HourRows(hours) == [j \in 1..Len(hours) |-> HourRow(hours[j])]

\* [... for day in days for hour in day["hour"]]
RECURSIVE FlattenHours(_)
FlattenHours(days) ==
    IF days = <<>> THEN <<>>
    ELSE HourRows(Head(days).hour) \o FlattenHours(Tail(days))

\* a variant that takes the hours of the first day only
Forecast48hrFirstDay(d) == HourRows(d.forecast.forecastday[1].hour)

Forecast48hr(d) == FlattenHours(d.forecast.forecastday)

DayOK(day) ==
    /\ HasFields(day, {"date", "day", "astro"})
    /\ HasFields(day.day, {"avgtemp_c", "condition", "maxwind_kph"})
    /\ HasFields(day.day.condition, {"text", "icon"})
    /\ HasFields(day.astro, {"sunrise", "sunset"})

DayRow(day) ==
    [date            |-> day.date,
     avg_temperature |-> day.day.avgtemp_c,
     condition       |-> day.day.condition.text,
     wind_speed      |-> day.day.maxwind_kph,
     sunrise         |-> day.astro.sunrise,
     sunset          |-> day.astro.sunset,
     icon            |-> IconUrl(day.day.condition.icon)]

\* the lookups of the daily comprehension all succeed
DailyOK(d) ==
    /\ HasFields(d, {"forecast"})
    /\ HasFields(d.forecast, {"forecastday"})
    /\ \A i \in 1..Len(d.forecast.forecastday) : DayOK(d.forecast.forecastday[i])

\* a variant that lists the days latest first
Forecast10dayReversed(d) ==
    [i \in 1..Len(d.forecast.forecastday) |->
        DayRow(d.forecast.forecastday[Len(d.forecast.forecastday) + 1 - i])]

Forecast10day(d) ==
    [i \in 1..Len(d.forecast.forecastday) |-> DayRow(d.forecast.forecastday[i])]

-----------------------------------------------------------------------------
(* main: rendering *)

\* if current_data (a dict of eight keys is never falsy)
Truthy(cd) == cd # None

\* a variant whose second value is not the remainder
PieValuesNoRemainder(h) == <<h, 100>>

\* values=[humidity, 100 - humidity]
PieValues(h) == <<h, 100 - h>>

\* y=[feels_like - 2, feels_like, feels_like - 1, feels_like - 3]
LineValues(f) == <<f - 2, f, f - 1, f - 3>>

\* a variant without the emptiness test
NotEmptyUnchecked(frame) == TRUE

\* not frame.empty
NotEmpty(frame) == Len(frame) > 0

\* the display copy: the icon column as an <img> tag
Display(frame) ==
    [i \in 1..Len(frame) |-> [frame[i] EXCEPT !.icon = ImgTag(frame[i].icon)]]

SectionsCurrent == <<"current", "visuals", "feels_like">>

-----------------------------------------------------------------------------
(* The run *)

Init ==
    /\ pc = "start"
    /\ config \in ConfigFiles
    /\ api_key = NoneStr
    /\ city = ""
    /\ show_48hr = FALSE
    /\ show_10day = FALSE
    /\ requests = <<>>
    /\ response_48hr = None
    /\ data_48hr = None
    /\ l_current = None
    /\ l_48hr = <<>>
    /\ response_10day = None
    /\ data_10day = None
    /\ l_10day = <<>>
    /\ current_data = None
    /\ forecast_48hr = <<>>
    /\ forecast_10day = <<>>
    /\ errors = <<>>
    /\ rendered = <<>>
    /\ gauge_value = <<>>
    /\ pie_values = <<>>
    /\ line_values = <<>>
    /\ html_48hr = <<>>
    /\ html_10day = <<>>

\* main: st.title, api_key = load_api_key(), if not api_key: st.stop()
LoadApiKey ==
    /\ pc = "start"
    /\ rendered' = Append(rendered, "title")
    /\ IF LoadRaises(config)
         THEN \* nothing catches the exception: the run ends in a traceback
              /\ pc' = "crashed"
              /\ UNCHANGED <<errors, api_key>>
         ELSE /\ errors' = errors \o LoadReports(config)
              /\ api_key' = LoadResult(config)
              /\ pc' = IF KeyMissing(LoadResult(config)) THEN "stopped" ELSE "sidebar"
    /\ UNCHANGED <<config, city, show_48hr, show_10day, requests, response_48hr,
                   data_48hr, l_current, l_48hr, response_10day, data_10day,
                   l_10day, current_data, forecast_48hr, forecast_10day,
                   gauge_value, pie_values, line_values, html_48hr, html_10day>>

\* main: the sidebar's text input and two checkboxes
Sidebar ==
    /\ pc = "sidebar"
    /\ \E c \in Cities, s48 \in BOOLEAN, s10 \in BOOLEAN :
          /\ city' = c
          /\ show_48hr' = s48
          /\ show_10day' = s10
    /\ rendered' = Append(rendered, "sidebar")
    /\ pc' = "get48"
    /\ UNCHANGED <<config, api_key, requests, response_48hr, data_48hr,
                   l_current, l_48hr, response_10day, data_10day, l_10day,
                   current_data, forecast_48hr, forecast_10day, errors,
                   gauge_value, pie_values, line_values, html_48hr, html_10day>>

\* load_weather_data: response_48hr = requests.get(url_48hr)
Get48 ==
    /\ pc = "get48"
    /\ requests' = Append(requests, Request(Days48, city, api_key))
    /\ \E r \in Responses48 :
          IF r.kind = "raise"
            THEN pc' = "except" /\ UNCHANGED response_48hr
            ELSE pc' = "json48" /\ response_48hr' = r
    /\ UNCHANGED <<config, api_key, city, show_48hr, show_10day, data_48hr,
                   l_current, l_48hr, response_10day, data_10day, l_10day,
                   current_data, forecast_48hr, forecast_10day, errors,
                   rendered, gauge_value, pie_values, line_values, html_48hr,
                   html_10day>>

\* load_weather_data: data_48hr = response_48hr.json()
Json48 ==
    /\ pc = "json48"
    /\ IF response_48hr.kind = "json"
         THEN pc' = "current" /\ data_48hr' = response_48hr.body
         ELSE pc' = "except" /\ UNCHANGED data_48hr
    /\ UNCHANGED <<config, api_key, city, show_48hr, show_10day, requests,
                   response_48hr, l_current, l_48hr, response_10day,
                   data_10day, l_10day, current_data, forecast_48hr,
                   forecast_10day, errors, rendered, gauge_value, pie_values,
                   line_values, html_48hr, html_10day>>

\* load_weather_data: current_data = {...}
BuildCurrent ==
    /\ pc = "current"
    /\ IF CurrentOK(data_48hr)
         THEN pc' = "hourly" /\ l_current' = CurrentData(data_48hr)
         ELSE pc' = "except" /\ UNCHANGED l_current
    /\ UNCHANGED <<config, api_key, city, show_48hr, show_10day, requests,
                   response_48hr, data_48hr, l_48hr, response_10day,
                   data_10day, l_10day, current_data, forecast_48hr,
                   forecast_10day, errors, rendered, gauge_value, pie_values,
                   line_values, html_48hr, html_10day>>

\* load_weather_data: forecast_48hr = pd.DataFrame([...])
BuildHourly ==
    /\ pc = "hourly"
    /\ IF HourlyOK(data_48hr)
         THEN pc' = "get10" /\ l_48hr' = Forecast48hr(data_48hr)
         ELSE pc' = "except" /\ UNCHANGED l_48hr
    /\ UNCHANGED <<config, api_key, city, show_48hr, show_10day, requests,
                   response_48hr, data_48hr, l_current, response_10day,
                   data_10day, l_10day, current_data, forecast_48hr,
                   forecast_10day, errors, rendered, gauge_value, pie_values,
                   line_values, html_48hr, html_10day>>

\* load_weather_data: response_10day = requests.get(url_10day)
Get10 ==
    /\ pc = "get10"
    /\ requests' = Append(requests, Request(Days10, city, api_key))
    /\ \E r \in Responses10 :
          IF r.kind = "raise"
            THEN pc' = "except" /\ UNCHANGED response_10day
            ELSE pc' = "json10" /\ response_10day' = r
    /\ UNCHANGED <<config, api_key, city, show_48hr, show_10day,
                   response_48hr, data_48hr, l_current, l_48hr, data_10day,
                   l_10day, current_data, forecast_48hr, forecast_10day,
                   errors, rendered, gauge_value, pie_values, line_values,
                   html_48hr, html_10day>>

\* load_weather_data: data_10day = response_10day.json()
Json10 ==
    /\ pc = "json10"
    /\ IF response_10day.kind = "json"
         THEN pc' = "daily" /\ data_10day' = response_10day.body
         ELSE pc' = "except" /\ UNCHANGED data_10day
    /\ UNCHANGED <<config, api_key, city, show_48hr, show_10day, requests,
                   response_48hr, data_48hr, l_current, l_48hr,
                   response_10day, l_10day, current_data, forecast_48hr,
                   forecast_10day, errors, rendered, gauge_value, pie_values,
                   line_values, html_48hr, html_10day>>

\* load_weather_data: forecast_10day = pd.DataFrame([...])
BuildDaily ==
    /\ pc = "daily"
    /\ IF DailyOK(data_10day)
         THEN pc' = "return" /\ l_10day' = Forecast10day(data_10day)
         ELSE pc' = "except" /\ UNCHANGED l_10day
    /\ UNCHANGED <<config, api_key, city, show_48hr, show_10day, requests,
                   response_48hr, data_48hr, l_current, l_48hr,
                   response_10day, data_10day, current_data, forecast_48hr,
                   forecast_10day, errors, rendered, gauge_value, pie_values,
                   line_values, html_48hr, html_10day>>

\* st.error(f"Error loading data: {e}")
FetchFailureMsg == "Error loading data"

\* what the try block returns
Returned == <<l_current, l_48hr, l_10day>>

\* a variant of the except block that keeps the current conditions
FailedKeepsCurrent == <<l_current, <<>>, <<>>>>

\* a variant of the except block that keeps what the first request gave
FailedKeepsFirst == <<l_current, l_48hr, <<>>>>

\* what the except block returns
Failed == <<None, <<>>, <<>>>>

\* load_weather_data: return current_data, forecast_48hr, forecast_10day
Return ==
    /\ pc = "return"
    /\ current_data' = Returned[1]
    /\ forecast_48hr' = Returned[2]
    /\ forecast_10day' = Returned[3]
    /\ pc' = "show_current"
    /\ UNCHANGED <<config, api_key, city, show_48hr, show_10day, requests,
                   response_48hr, data_48hr, l_current, l_48hr,
                   response_10day, data_10day, l_10day, errors, rendered,
                   gauge_value, pie_values, line_values, html_48hr,
                   html_10day>>

\* load_weather_data: except Exception: st.error(...); return None, empty, empty
Except ==
    /\ pc = "except"
    /\ errors' = Append(errors, FetchFailureMsg)
    /\ current_data' = Failed[1]
    /\ forecast_48hr' = Failed[2]
    /\ forecast_10day' = Failed[3]
    /\ pc' = "show_current"
    /\ UNCHANGED <<config, api_key, city, show_48hr, show_10day, requests,
                   response_48hr, data_48hr, l_current, l_48hr,
                   response_10day, data_10day, l_10day, rendered,
                   gauge_value, pie_values, line_values, html_48hr,
                   html_10day>>

\* main: if current_data: the current-conditions section and its three charts
ShowCurrent ==
    /\ pc = "show_current"
    /\ IF Truthy(current_data)
         THEN /\ rendered' = rendered \o SectionsCurrent
              /\ gauge_value' = <<current_data.temperature>>
              /\ pie_values' = PieValues(current_data.humidity)
              /\ line_values' = LineValues(current_data.feels_like)
         ELSE UNCHANGED <<rendered, gauge_value, pie_values, line_values>>
    /\ pc' = "show_48hr"
    /\ UNCHANGED <<config, api_key, city, show_48hr, show_10day, requests,
                   response_48hr, data_48hr, l_current, l_48hr,
                   response_10day, data_10day, l_10day, current_data,
                   forecast_48hr, forecast_10day, errors, html_48hr,
                   html_10day>>

\* main: if show_48hr and not forecast_48hr.empty
Show48hr ==
    /\ pc = "show_48hr"
    /\ IF show_48hr /\ NotEmpty(forecast_48hr)
         THEN /\ rendered' = Append(rendered, "48hr")
              /\ html_48hr' = Display(forecast_48hr)
         ELSE UNCHANGED <<rendered, html_48hr>>
    /\ pc' = "show_10day"
    /\ UNCHANGED <<config, api_key, city, show_48hr, show_10day, requests,
                   response_48hr, data_48hr, l_current, l_48hr,
                   response_10day, data_10day, l_10day, current_data,
                   forecast_48hr, forecast_10day, errors, gauge_value,
                   pie_values, line_values, html_10day>>

\* main: if show_10day and not forecast_10day.empty
Show10day ==
    /\ pc = "show_10day"
    /\ IF show_10day /\ NotEmpty(forecast_10day)
         THEN /\ rendered' = Append(rendered, "10day")
              /\ html_10day' = Display(forecast_10day)
         ELSE UNCHANGED <<rendered, html_10day>>
    /\ pc' = "done"
    /\ UNCHANGED <<config, api_key, city, show_48hr, show_10day, requests,
                   response_48hr, data_48hr, l_current, l_48hr,
                   response_10day, data_10day, l_10day, current_data,
                   forecast_48hr, forecast_10day, errors, gauge_value,
                   pie_values, line_values, html_48hr>>

Next ==
    \/ LoadApiKey
    \/ Sidebar
    \/ Get48
    \/ Json48
    \/ BuildCurrent
    \/ BuildHourly
    \/ Get10
    \/ Json10
    \/ BuildDaily
    \/ Return
    \/ Except
    \/ ShowCurrent
    \/ Show48hr
    \/ Show10day

Spec == Init /\ [][Next]_vars

-----------------------------------------------------------------------------
(* Vocabulary of the properties *)

\* load_weather_data has returned to main
AfterFetch == pc \in {"show_current", "show_48hr", "show_10day", "done"}

\* the days=2 request failed: the GET raised, or its body is not JSON, or a
\* field the reshaping reads is missing from its payload
FirstRequestFailed ==
    \/ Len(requests) >= 1 /\ response_48hr = None
    \/ response_48hr # None /\ response_48hr.kind = "text"
    \/ data_48hr # None /\ ~(CurrentOK(data_48hr) /\ HourlyOK(data_48hr))

\* the days=10 request was issued and failed in one of the same three ways
SecondRequestFailed ==
    /\ Len(requests) = 2
    /\ \/ response_10day = None
       \/ response_10day # None /\ response_10day.kind = "text"
       \/ data_10day # None /\ ~DailyOK(data_10day)

\* load_weather_data returned its three outputs
FetchSucceeded == AfterFetch /\ current_data # None

\* load_weather_data returned after one of its requests failed
FetchFailed == AfterFetch /\ (FirstRequestFailed \/ SecondRequestFailed)

IsPrefix(s, t) == Len(s) <= Len(t) /\ \A i \in 1..Len(s) : s[i] = t[i]

HttpCdnExampleIcon ==
    <<"h", "t", "t", "p", ":", "/", "/", "c", "d", "n", ".", "e", "x", "a",
      "m", "p", "l", "e", "/", "i", "c", "o", "n", ".", "p", "n", "g">>

\* out is the five letters http: followed by the path
Prefixed(out, path) ==
    /\ Len(out) = Len(path) + 5
    /\ SubSeq(out, 1, 5) = <<"h", "t", "t", "p", ":">>
    /\ SubSeq(out, 6, Len(out)) = path
    /\ (path = CdnExampleIcon => out = HttpCdnExampleIcon)

\* number of hours of the days before day d
RECURSIVE HoursBefore(_, _)
HoursBefore(days, d) ==
    IF d <= 1 THEN 0 ELSE HoursBefore(days, d - 1) + Len(days[d - 1].hour)

TotalHours(days) == HoursBefore(days, Len(days) + 1)

\* row carries the fields of the payload's hour, the icon apart
SameHour(row, hour) ==
    /\ row.time = hour.time
    /\ row.temperature = hour.temp_c
    /\ row.feels_like = hour.feelslike_c
    /\ row.humidity = hour.humidity
    /\ row.condition = hour.condition.text
    /\ row.wind_speed = hour.wind_kph

\* row carries the fields of the payload's day, the icon apart
SameDay(row, day) ==
    /\ row.date = day.date
    /\ row.avg_temperature = day.day.avgtemp_c
    /\ row.condition = day.day.condition.text
    /\ row.wind_speed = day.day.maxwind_kph
    /\ row.sunrise = day.astro.sunrise
    /\ row.sunset = day.astro.sunset

-----------------------------------------------------------------------------
(* Properties *)

\* C1: when the days=2 request fails (the GET raises, the body is not JSON, or
\* a required field is missing), the days=10 request is never issued and
\* load_weather_data returns (None, empty table, empty table).
C1_FirstFailureReturnsNothing ==
    FirstRequestFailed =>
        /\ Len(requests) = 1
        /\ requests[1].days = 2
        /\ pc \notin {"get10", "json10", "daily", "return"}
        /\ AfterFetch =>
              /\ current_data = None
              /\ forecast_48hr = <<>>
              /\ forecast_10day = <<>>

\* the first request failed in the hourly reshaping, after the current
\* conditions had been built, and the run is over
C1_Witness ==
    /\ pc = "done"
    /\ FirstRequestFailed
    /\ l_current # None
    /\ current_data = None

\* C2: when the first request and its reshaping succeed and the days=10
\* request fails, load_weather_data returns (None, empty table, empty table),
\* and current conditions are returned only when all three outputs were built.
C2_SecondFailureDiscardsAll ==
    /\ (AfterFetch /\ SecondRequestFailed) =>
          /\ l_current # None
          /\ current_data = None
          /\ forecast_48hr = <<>>
          /\ forecast_10day = <<>>
    /\ (AfterFetch /\ current_data # None) =>
          /\ ~FirstRequestFailed
          /\ ~SecondRequestFailed
          /\ data_48hr # None
          /\ data_10day # None
          /\ Len(forecast_48hr) = TotalHours(data_48hr.forecast.forecastday)
          /\ Len(forecast_10day) = Len(data_10day.forecast.forecastday)

\* the second request failed with current conditions and a non-empty hourly
\* table already built, and nothing of them was returned
C2_Witness ==
    /\ pc = "done"
    /\ SecondRequestFailed
    /\ l_current # None
    /\ Len(l_48hr) > 0
    /\ current_data = None
    /\ forecast_48hr = <<>>

\* C3: when config.json is absent, load_api_key reports the missing
\* configuration and returns None, the run halts, and no HTTP request is
\* issued at any point of the run.
C3_MissingConfigHalts ==
    config.kind = "absent" =>
        /\ requests = <<>>
        /\ pc \in {"start", "stopped"}
        /\ pc = "stopped" =>
              /\ errors = <<"API key configuration file not found.">>
              /\ api_key = NoneStr

C3_Witness ==
    /\ config.kind = "absent"
    /\ pc = "stopped"
    /\ Len(errors) = 1

\* C4 as stated: every field of the returned current conditions, the icon
\* included, equals its source field of the 2-day payload verbatim.
C4_AllFieldsVerbatim ==
    FetchSucceeded =>
        /\ current_data.temperature = data_48hr.current.temp_c
        /\ current_data.feels_like = data_48hr.current.feelslike_c
        /\ current_data.humidity = data_48hr.current.humidity
        /\ current_data.condition = data_48hr.current.condition.text
        /\ current_data.wind_speed = data_48hr.current.wind_kph
        /\ current_data.sunrise = data_48hr.forecast.forecastday[1].astro.sunrise
        /\ current_data.sunset = data_48hr.forecast.forecastday[1].astro.sunset
        /\ current_data.icon = data_48hr.current.condition.icon

\* C4 amended: temperature, feels-like, humidity, condition text, wind speed,
\* sunrise and sunset equal their source fields verbatim; the icon is the
\* payload's icon path with http: put in front of it.
C4_FieldsVerbatimIconPrefixed ==
    FetchSucceeded =>
        /\ current_data.temperature = data_48hr.current.temp_c
        /\ current_data.feels_like = data_48hr.current.feelslike_c
        /\ current_data.humidity = data_48hr.current.humidity
        /\ current_data.condition = data_48hr.current.condition.text
        /\ current_data.wind_speed = data_48hr.current.wind_kph
        /\ current_data.sunrise = data_48hr.forecast.forecastday[1].astro.sunrise
        /\ current_data.sunset = data_48hr.forecast.forecastday[1].astro.sunset
        /\ Prefixed(current_data.icon, data_48hr.current.condition.icon)

\* current conditions returned from a payload whose temperature and
\* feels-like differ and whose first day is not its only day
C4_Witness ==
    /\ FetchSucceeded
    /\ data_48hr.current = CurrentB
    /\ Len(data_48hr.forecast.forecastday) = 2
    /\ data_48hr.forecast.forecastday[1] # data_48hr.forecast.forecastday[2]
    /\ current_data.temperature = -4

\* C5: on success the hourly forecast has as many rows as the days of the
\* 2-day payload have hours together, and its rows are the payload's hours in
\* the payload's order: day by day, hour by hour.
C5_HourlyFlattenedInOrder ==
    FetchSucceeded =>
        LET days == data_48hr.forecast.forecastday IN
        /\ Len(forecast_48hr) = TotalHours(days)
        /\ \A d \in 1..Len(days) : \A h \in 1..Len(days[d].hour) :
              SameHour(forecast_48hr[HoursBefore(days, d) + h], days[d].hour[h])

\* a payload of two days whose hours are not in chronological order
C5_Witness ==
    /\ FetchSucceeded
    /\ data_48hr.forecast.forecastday = <<DayB, DayA>>
    /\ Len(forecast_48hr) = 3
    /\ forecast_48hr[1].time = "2024-05-01 22:00"
    /\ forecast_48hr[3].time = "2024-05-01 23:00"

\* C6: on success the daily forecast has one row per "forecastday" element of
\* the 10-day payload, in the array's order (ten rows for ten elements), and
\* its rows come from the 10-day payload, not from the 2-day payload.
C6_DailyOnePerDayInOrder ==
    FetchSucceeded =>
        LET days == data_10day.forecast.forecastday IN
        /\ Len(forecast_10day) = Len(days)
        /\ (Len(days) = 10 => Len(forecast_10day) = 10)
        /\ \A i \in 1..Len(days) : SameDay(forecast_10day[i], days[i])

\* ten daily rows from a ten-day payload, with a 2-day payload of other days
C6_Witness ==
    /\ FetchSucceeded
    /\ Len(data_10day.forecast.forecastday) = 10
    /\ Len(forecast_10day) = 10
    /\ forecast_10day[10].avg_temperature = 20
    /\ Len(data_48hr.forecast.forecastday) = 2
    /\ data_48hr.forecast.forecastday[1].date # data_10day.forecast.forecastday[1].date

\* C7 as stated: the icon transformation is idempotent (applied to a URL it
\* produced, it leaves it as it is), and //cdn.example/icon.png becomes
\* http://cdn.example/icon.png.
C7_IconUrlIdempotent ==
    FetchSucceeded =>
        /\ IconUrl(current_data.icon) = current_data.icon
        /\ (data_48hr.current.condition.icon = CdnExampleIcon
              => current_data.icon = HttpCdnExampleIcon)

\* C7 amended: every icon of the three outputs is its payload's icon path
\* with http: put in front, whatever the path starts with, so
\* //cdn.example/icon.png becomes http://cdn.example/icon.png; the
\* transformation is not idempotent: applied to its own result it puts a
\* second http: in front.
C7_IconUrlPrefixes ==
    FetchSucceeded =>
        LET days48 == data_48hr.forecast.forecastday
            days10 == data_10day.forecast.forecastday IN
        /\ Prefixed(current_data.icon, data_48hr.current.condition.icon)
        /\ \A d \in 1..Len(days48) : \A h \in 1..Len(days48[d].hour) :
              Prefixed(forecast_48hr[HoursBefore(days48, d) + h].icon,
                       days48[d].hour[h].condition.icon)
        /\ \A i \in 1..Len(days10) :
              Prefixed(forecast_10day[i].icon, days10[i].day.condition.icon)
        /\ Prefixed(IconUrl(current_data.icon), current_data.icon)
        /\ IconUrl(current_data.icon) # current_data.icon

\* the documented path among the current conditions, and a path that
\* already starts with http: among the hours
C7_Witness ==
    /\ FetchSucceeded
    /\ data_48hr.current.condition.icon = CdnExampleIcon
    /\ current_data.icon = HttpCdnExampleIcon
    /\ \E k \in 1..Len(forecast_48hr) :
          SubSeq(forecast_48hr[k].icon, 1, 10) =
              <<"h", "t", "t", "p", ":", "h", "t", "t", "p", ":">>

\* main has drawn the humidity pie chart
PieDrawn == pc \in {"show_48hr", "show_10day", "done"} /\ current_data # None

\* C8: the humidity pie chart is drawn from the values humidity and
\* 100 - humidity; for a humidity in 0..100 they add up to 100 and neither is
\* negative.
C8_PieSumsTo100 ==
    /\ PieDrawn =>
          LET h == data_48hr.current.humidity IN
          /\ Len(pie_values) = 2
          /\ pie_values[1] = h
          /\ pie_values[2] = 100 - h
          /\ h \in 0..100 =>
                /\ pie_values[1] + pie_values[2] = 100
                /\ pie_values[1] >= 0
                /\ pie_values[2] >= 0
    /\ ~PieDrawn => pie_values = <<>>

C8_Witness ==
    /\ PieDrawn
    /\ data_48hr.current.humidity = 45
    /\ pie_values = <<45, 55>>

\* C9: when the fetch fails, whatever the two toggles, exactly one error
\* message is shown, none of the current-conditions section, the 48-hour table
\* and the 10-day table is rendered, and the run goes on to its end.
C9_FailureRendersNothing ==
    FetchFailed =>
        /\ errors = <<"Error loading data">>
        /\ rendered = <<"title", "sidebar">>
        /\ gauge_value = <<>>
        /\ pie_values = <<>>
        /\ line_values = <<>>
        /\ html_48hr = <<>>
        /\ html_10day = <<>>
        /\ pc \notin {"stopped", "crashed"}
        /\ (pc = "done" \/ ENABLED Next)

\* a failed fetch with both toggles on, at the end of the run
C9_Witness ==
    /\ FetchFailed
    /\ pc = "done"
    /\ show_48hr
    /\ show_10day

\* config.json holds a non-empty api_key
CredentialPresent == ConfigReadable(config) /\ config.body.api_key # ""

\* C10: with a credential, the requests issued are a prefix of
\* [days=2, days=10]; the days=10 request is issued only once the 2-day
\* answer is parsed and reshaped; no request is repeated; and once the 2-day
\* part has succeeded the days=10 request is issued whatever the toggles.
C10_RequestsInOrder ==
    CredentialPresent =>
        /\ IsPrefix(requests,
                    << [days |-> 2, q |-> city, key |-> config.body.api_key],
                       [days |-> 10, q |-> city, key |-> config.body.api_key] >>)
        /\ Len(requests) = 2 =>
              /\ data_48hr # None
              /\ l_current # None
              /\ Len(l_48hr) = TotalHours(data_48hr.forecast.forecastday)
              /\ pc \notin {"get48", "json48", "current", "hourly", "get10"}
        /\ pc \in {"json10", "daily", "return"} => Len(requests) = 2
        /\ (AfterFetch /\ ~FirstRequestFailed) => Len(requests) = 2

\* both requests issued, in order, with both toggles off
C10_Witness ==
    /\ CredentialPresent
    /\ pc = "done"
    /\ Len(requests) = 2
    /\ requests[1].days = 2
    /\ requests[2].days = 10
    /\ ~show_48hr
    /\ ~show_10day

====
